---- MODULE Spec2Model ----
(***************************************************************************)
(* Model of the link shortener (FastAPI + SQLModel): the three endpoints   *)
(* of app/api/endpoints.py, the services and repositories they call, and   *)
(* the two tables of app/db/models.py.                                     *)
(*                                                                         *)
(* Every request runs in a session of its own (app/db/session.py).  One    *)
(* action is one request's code between two awaits on the database: the    *)
(* statement the await sends, and the Python code that runs on its answer  *)
(* up to the next await.  The database gives what the code relies on:      *)
(* a statement sees committed rows only, an UPDATE locks the row it        *)
(* changes until its transaction commits, an INSERT of a key that another  *)
(* open transaction has inserted waits for that transaction, and a unique  *)
(* index rejects an INSERT of a committed key (IntegrityError).            *)
(*                                                                         *)
(* A str is a sequence of tokens; Optional[x] is a set, None == {}.        *)
(***************************************************************************)
EXTENDS Integers, Sequences, FiniteSets, TLC

\* ------------------------------------------------------------------ bounds

\* Number of requests the model runs, each one call of one endpoint.
NumReq == 3

\* Largest value the wall clock (datetime.now()) takes.
MaxClock == 1

\* The codes generate_short_code draws from (62^6 in the program).
Codes == {"c1", "c2"}

\* The bodies POST /shorten is called with.
InputUrls ==
    { <<>>,
      <<" ", "http", ":", "/", "/", "nodothost">>,
      <<" ", "example", ".", "com", " ">>,
      <<"http", ":", "/", "/", "example", ".", "com", "/", "p">> }

\* A wider set of bodies, for one POST /shorten on its own: blanks or none,
\* a scheme prefix or none, a host or none, a path or none, blanks or none.
ShortenInputs ==
    { lead \o scheme \o host \o path \o trail :
        lead \in {<<>>, <<" ">>},
        scheme \in {<<>>, <<"http", ":", "/", "/">>, <<"https", ":", "/", "/">>,
                    <<"ftp", ":", "/", "/">>, <<"HTTP", ":", "/", "/">>, <<"ftp", ":">>},
        host \in {<<>>, <<"nodothost">>, <<"example", ".", "com">>},
        path \in {<<>>, <<"/", "p">>},
        trail \in {<<>>, <<" ">>} }

Req == 1..NumReq

None == {}

\* ---------------------------------------------------------------- strings

Whitespace == {" "}

RECURSIVE lstrip(_)
lstrip(s) ==
    IF s # <<>> /\ Head(s) \in Whitespace THEN lstrip(Tail(s)) ELSE s

RECURSIVE rstrip(_)
rstrip(s) ==
    IF s # <<>> /\ s[Len(s)] \in Whitespace
    THEN rstrip(SubSeq(s, 1, Len(s) - 1))
    ELSE s

\* Mutant: only the leading blanks are removed.
strip_left_only(s) == lstrip(s)

\* str.strip()
strip(s) == rstrip(lstrip(s))

\* str.startswith(prefix)
startswith(s, prefix) ==
    /\ Len(s) >= Len(prefix)
    /\ SubSeq(s, 1, Len(prefix)) = prefix

\* str.startswith(("http://", "https://"))
HasHttpPrefix(s) ==
    \/ startswith(s, <<"http", ":", "/", "/">>)
    \/ startswith(s, <<"https", ":", "/", "/">>)

\* f"https://{url}"
AddHttps(s) == <<"https", ":", "/", "/">> \o s

\* Index of the first token of s in the set stop, from position i on;
\* Len(s) + 1 when there is none.
RECURSIVE find(_, _, _)
find(s, stop, i) ==
    IF i > Len(s) THEN Len(s) + 1
    ELSE IF s[i] \in stop THEN i
    ELSE find(s, stop, i + 1)

\* The characters urlsplit accepts in a scheme: letters, digits, "+-.".
SchemeTokens == {"http", "https", "ftp", "HTTP", "example", "com", "nodothost", "p", "."}

LetterTokens == SchemeTokens \ {"."}

lower(t) == IF t = "HTTP" THEN "http" ELSE t

\* urllib.parse.urlparse: the scheme and the netloc of its result.
urlparse(url) ==
    LET i == find(url, {":"}, 1)
        hasScheme ==
            /\ i > 1
            /\ i <= Len(url)
            /\ url[1] \in LetterTokens
            /\ \A k \in 1..(i - 1) : url[k] \in SchemeTokens
        scheme == IF hasScheme THEN [k \in 1..(i - 1) |-> lower(url[k])] ELSE <<>>
        rest == IF hasScheme THEN SubSeq(url, i + 1, Len(url)) ELSE url
        hasNetloc == startswith(rest, <<"/", "/">>)
        j == find(rest, {"/", "?", "#"}, 3)
    IN  [scheme |-> scheme,
         netloc |-> IF hasNetloc THEN SubSeq(rest, 3, j - 1) ELSE <<>>]

\* Mutant: the input is taken as it is.
validate_nothing(input) == [ok |-> TRUE, status |-> 200, detail |-> "", url |-> input]

\* Mutant: validate_url without its test of line 37, the "." in the netloc.
validate_url_any_host(input) ==
    IF input = <<>> \/ strip(input) = <<>>
    THEN [ok |-> FALSE, status |-> 400, detail |-> "URL cannot be empty", url |-> <<>>]
    ELSE
        LET stripped == strip(input)
            url == IF ~HasHttpPrefix(stripped) THEN AddHttps(stripped) ELSE stripped
        IN  IF urlparse(url).netloc = <<>>
            THEN [ok |-> FALSE, status |-> 400, detail |-> "Invalid URL format", url |-> <<>>]
            ELSE [ok |-> TRUE, status |-> 200, detail |-> "", url |-> url]

\* validate_url: the exception it raises, or the normalized URL.
validate_url(input) ==
    IF input = <<>> \/ strip(input) = <<>>
    THEN [ok |-> FALSE, status |-> 400, detail |-> "URL cannot be empty", url |-> <<>>]
    ELSE
        LET stripped == strip(input)
            url == IF ~HasHttpPrefix(stripped) THEN AddHttps(stripped) ELSE stripped
            parsed == urlparse(url)
        IN  IF parsed.scheme \notin {<<"http">>, <<"https">>}
            THEN [ok |-> FALSE, status |-> 400,
                  detail |-> "URL must use http or https", url |-> <<>>]
            ELSE IF parsed.netloc = <<>>
            THEN [ok |-> FALSE, status |-> 400, detail |-> "Invalid URL format", url |-> <<>>]
            ELSE IF \A k \in 1..Len(parsed.netloc) : parsed.netloc[k] # "."
            THEN [ok |-> FALSE, status |-> 400, detail |-> "Invalid domain", url |-> <<>>]
            ELSE [ok |-> TRUE, status |-> 200, detail |-> "", url |-> url]

\* ------------------------------------------------------------------ state

VARIABLES
    urls,           \* table "urls": the committed ShortURL rows
    url_stats,      \* table "url_stats": the committed URLStats rows
    clock,          \* the wall clock datetime.now() reads
    request,        \* per request: the endpoint called and what the client sent
    pc,             \* per request: the await its handler is suspended at
    local,          \* per request: the handler's local variables
    pending_urls,   \* per request: ShortURL rows its session's open transaction wrote
    pending_stats,  \* per request: URLStats rows its session's open transaction wrote
    response        \* per request: the HTTP response, once it has one

vars == <<urls, url_stats, clock, request, pc, local, pending_urls, pending_stats,
          response>>

\* url_service.py: MAX_ATTEMPTS
MAX_ATTEMPTS == 5

\* A request slot no client has used yet.
NoRequest == [endpoint |-> "none", original_url |-> <<>>, short_code |-> ""]

\* The locals of a handler that has not started or has returned:
\* original_url, short_code, the iterations of the MAX_ATTEMPTS loop used up,
\* result.rowcount, and the datetime.now() the next statement carries.
NoLocals ==
    [original_url |-> <<>>, short_code |-> "", attempt |-> 0, rowcount |-> 0, now |-> 0]

NoResponse == [status |-> 0, exc |-> "", detail |-> "", body |-> {}]

\* fastapi.HTTPException(status_code, detail), as the client gets it.
HTTPException(status_code, detail) ==
    [status |-> status_code, exc |-> "HTTPException", detail |-> detail, body |-> {}]

\* An exception no handler catches: Starlette answers 500.
Unhandled(exc) ==
    [status |-> 500, exc |-> exc, detail |-> "Internal Server Error", body |-> {}]

\* A response without an exception.
Response(status_code, content) ==
    [status |-> status_code, exc |-> "", detail |-> "", body |-> {content}]

\* The handler of request r returns or raises: the client gets resp, the
\* locals are gone.
Return(r, resp) ==
    /\ response' = [response EXCEPT ![r] = resp]
    /\ local' = [local EXCEPT ![r] = NoLocals]
    /\ pc' = [pc EXCEPT ![r] = "done"]

\* ---------------------------------------------------------------- database

Max(S) == IF S = {} THEN 0 ELSE CHOOSE x \in S : \A y \in S : y <= x

AllPendingUrls == UNION {pending_urls[r] : r \in Req}

AllPendingStats == UNION {pending_stats[r] : r \in Req}

\* The next value of a table's id sequence.
NextId(committed, pending) == Max({row.id : row \in committed \cup pending}) + 1

\* Mutant: the column without its unique index.
ShortURLNotUnique(code) == FALSE

\* Mutant: the same for URLStats.short_code.
URLStatsNotUnique(code) == FALSE

\* ShortURL.short_code, Field(unique=True): the index rejects an INSERT of a
\* code a committed row of "urls" holds.
ShortURLUniqueViolation(code) == \E row \in urls : row.short_code = code

\* URLStats.short_code, Field(unique=True): the same for "url_stats".
URLStatsUniqueViolation(code) == \E row \in url_stats : row.short_code = code

\* Mutant: an INSERT never waits for another transaction's INSERT.
InsertNeverWaits(r, pending, code) == FALSE

\* An INSERT of a code that another open transaction has inserted waits for it.
InsertWaits(r, pending, code) ==
    \E s \in Req \ {r} : \E row \in pending[s] : row.short_code = code

\* select(...).where(short_code == code) ... result.first()
first(table, code) == {row \in table : row.short_code = code}

\* Mutant: is_active defaults to False.
InactiveShortURL(id, url, code) ==
    [id |-> id, original_url |-> url, short_code |-> code, is_active |-> FALSE]

\* ShortURL(original_url=..., short_code=...): is_active takes its default.
ShortURL(id, url, code) ==
    [id |-> id, original_url |-> url, short_code |-> code, is_active |-> TRUE]

\* Mutant: the row is built with the defaults of its columns, 0 and None.
URLStatsDefaults(id, code, count, at) ==
    [id |-> id, short_code |-> code, visit_count |-> 0, last_visited_at |-> {}]

\* URLStats(short_code=..., visit_count=..., last_visited_at=...)
URLStats(id, code, count, at) ==
    [id |-> id, short_code |-> code, visit_count |-> count, last_visited_at |-> at]

\* Mutant: a COMMIT leaves only the transaction's own rows in the table.
Overwritten(table, written) == written

\* A COMMIT: the transaction's rows replace the committed rows of their ids.
Committed(table, written) ==
    {row \in table : \A w \in written : w.id # row.id} \cup written

\* datetime.now(): the clock, which only moves forward.
Times == clock..MaxClock

\* --------------------------------------------------------------- /shorten

\* POST /shorten arrives: create_short_url runs validate_url.
StartShorten(r, u) ==
    /\ pc[r] = "idle"
    /\ request' = [request EXCEPT ![r] =
                      [endpoint |-> "shorten", original_url |-> u, short_code |-> ""]]
    /\ LET v == validate_url(u)
       IN  IF v.ok
           THEN /\ local' = [local EXCEPT ![r].original_url = v.url]
                /\ pc' = [pc EXCEPT ![r] = "get_by_short_code"]
                /\ UNCHANGED response
           ELSE Return(r, HTTPException(v.status, v.detail))
    /\ UNCHANGED <<urls, url_stats, clock, pending_urls, pending_stats>>

\* line 22 raises HTTPException, a name url_service.py never imports.
RaiseExhausted == Unhandled("NameError")

\* One iteration of the loop: generate_short_code() gave c, get_by_short_code
\* answers.  local.attempt counts the iterations that found their code taken:
\* a code found taken is not read again, and the iteration that finds its
\* code free leaves the loop for good.
ShortenLookup(r, c) ==
    /\ pc[r] = "get_by_short_code"
    /\ local[r].attempt < MAX_ATTEMPTS
    /\ IF first(urls, c) = None
       THEN /\ local' = [local EXCEPT ![r].attempt = 0, ![r].short_code = c]
            /\ pc' = [pc EXCEPT ![r] = "add_flush"]
            /\ UNCHANGED response
       ELSE IF local[r].attempt + 1 = MAX_ATTEMPTS
       THEN Return(r, RaiseExhausted)
       ELSE /\ local' = [local EXCEPT ![r].attempt = @ + 1]
            /\ UNCHANGED <<pc, response>>
    /\ UNCHANGED <<urls, url_stats, clock, request, pending_urls, pending_stats>>

\* Mutant: a rejected INSERT sends the call back into the loop.
ShortenFlushRetrying(r) ==
    /\ pc[r] = "add_flush"
    /\ IF ShortURLUniqueViolation(local[r].short_code)
       THEN /\ pc' = [pc EXCEPT ![r] = "get_by_short_code"]
            /\ UNCHANGED <<local, response, pending_urls>>
       ELSE /\ ~InsertWaits(r, pending_urls, local[r].short_code)
            /\ pending_urls' = [pending_urls EXCEPT ![r] =
                   {ShortURL(NextId(urls, AllPendingUrls),
                             local[r].original_url, local[r].short_code)}]
            /\ pc' = [pc EXCEPT ![r] = "commit"]
            /\ UNCHANGED <<local, response>>
    /\ UNCHANGED <<urls, url_stats, clock, request, pending_stats>>

\* URLRepository.create: session.add and the INSERT that commit() flushes.
\* Nothing catches its IntegrityError.
ShortenFlush(r) ==
    /\ pc[r] = "add_flush"
    /\ IF ShortURLUniqueViolation(local[r].short_code)
       THEN /\ Return(r, Unhandled("IntegrityError"))
            /\ UNCHANGED pending_urls
       ELSE /\ ~InsertWaits(r, pending_urls, local[r].short_code)
            /\ pending_urls' = [pending_urls EXCEPT ![r] =
                   {ShortURL(NextId(urls, AllPendingUrls),
                             local[r].original_url, local[r].short_code)}]
            /\ pc' = [pc EXCEPT ![r] = "commit"]
            /\ UNCHANGED <<local, response>>
    /\ UNCHANGED <<urls, url_stats, clock, request, pending_stats>>

\* ShortenRequestResponse(short_code=..., original_url=...)
ShortenRequestResponse(row) ==
    [short_code |-> row.short_code, original_url |-> row.original_url]

\* URLRepository.create: the COMMIT, the refresh, and the endpoint's answer.
ShortenCommit(r) ==
    /\ pc[r] = "commit"
    /\ urls' = Committed(urls, pending_urls[r])
    /\ pending_urls' = [pending_urls EXCEPT ![r] = {}]
    /\ \E row \in pending_urls[r] : Return(r, Response(200, ShortenRequestResponse(row)))
    /\ UNCHANGED <<url_stats, clock, request, pending_stats>>

\* ------------------------------------------------------------ /{short_code}

\* GET /{short_code} arrives.
StartRedirect(r, c) ==
    /\ pc[r] = "idle"
    /\ request' = [request EXCEPT ![r] =
                      [endpoint |-> "redirect", original_url |-> <<>>, short_code |-> c]]
    /\ local' = [local EXCEPT ![r].short_code = c]
    /\ pc' = [pc EXCEPT ![r] = "get_original_url"]
    /\ UNCHANGED <<urls, url_stats, clock, pending_urls, pending_stats, response>>

\* Mutant: the lookup finds a URL whatever the code.
get_original_url_always(table, code) ==
    {<<"https", ":", "/", "/", "example", ".", "com">>}

\* Mutant: is_active is not looked at.
get_original_url_any(table, code) == {row.original_url : row \in first(table, code)}

\* URLService.get_original_url: the row's original_url when the row exists
\* and is active, else None.
get_original_url(table, code) ==
    {row.original_url : row \in {x \in first(table, code) : x.is_active}}

\* redirect_to_url, lines 50-51: the scheme put back on a stored URL without one.
RedirectTarget(url) == IF ~HasHttpPrefix(url) THEN AddHttps(url) ELSE url

\* The lookup answers; on a hit increment_visit_count builds its UPDATE, which
\* carries datetime.now().
RedirectLookup(r) ==
    /\ pc[r] = "get_original_url"
    /\ LET found == get_original_url(urls, local[r].short_code)
       IN  IF found = None \/ found = {<<>>}
           THEN /\ Return(r, HTTPException(404, "Short URL not found"))
                /\ UNCHANGED clock
           ELSE /\ \E url \in found : \E t \in Times :
                       /\ clock' = t
                       /\ local' = [local EXCEPT ![r].original_url = RedirectTarget(url),
                                                 ![r].now = t]
                /\ pc' = [pc EXCEPT ![r] = "update"]
                /\ UNCHANGED response
    /\ UNCHANGED <<urls, url_stats, request, pending_urls, pending_stats>>

\* The row lock of an UPDATE: the rows another open transaction has updated.
LockedByOther(r, rows) ==
    \E s \in Req \ {r} : \E p \in pending_stats[s] : \E row \in rows : p.id = row.id

\* Mutant: the UPDATE sets last_visited_at only.
Touched(row, at) == [row EXCEPT !.last_visited_at = {at}]

\* Mutant: the count goes down.
Decremented(row, at) ==
    [row EXCEPT !.visit_count = @ - 1, !.last_visited_at = {at}]

\* .values(visit_count=URLStats.visit_count + 1, last_visited_at=...)
Incremented(row, at) ==
    [row EXCEPT !.visit_count = @ + 1, !.last_visited_at = {at}]

\* increment_visit_count, line 33: the UPDATE runs.
RedirectUpdate(r) ==
    /\ pc[r] = "update"
    /\ LET rows == first(url_stats, local[r].short_code)
       IN  /\ ~LockedByOther(r, rows)
           /\ pending_stats' = [pending_stats EXCEPT ![r] =
                                   {Incremented(row, local[r].now) : row \in rows}]
           /\ local' = [local EXCEPT ![r].rowcount = Cardinality(rows)]
    /\ pc' = [pc EXCEPT ![r] = "commit_update"]
    /\ UNCHANGED <<urls, url_stats, clock, request, pending_urls, response>>

\* RedirectResponse(url=original_url, status_code=307)
RedirectResponse(url) == Response(307, url)

\* increment_visit_count, lines 34-37: the COMMIT; with rowcount == 0 the new
\* URLStats is built, which carries datetime.now().
RedirectCommitUpdate(r) ==
    /\ pc[r] = "commit_update"
    /\ url_stats' = Committed(url_stats, pending_stats[r])
    /\ pending_stats' = [pending_stats EXCEPT ![r] = {}]
    /\ IF local[r].rowcount = 0
       THEN /\ \E t \in Times :
                   /\ clock' = t
                   /\ local' = [local EXCEPT ![r].now = t]
            /\ pc' = [pc EXCEPT ![r] = "add_flush_stats"]
            /\ UNCHANGED response
       ELSE /\ Return(r, RedirectResponse(local[r].original_url))
            /\ UNCHANGED clock
    /\ UNCHANGED <<urls, request, pending_urls>>

\* increment_visit_count, lines 38-39: session.add and the INSERT that
\* commit() flushes.  Nothing catches its IntegrityError.
RedirectFlushStats(r) ==
    /\ pc[r] = "add_flush_stats"
    /\ IF URLStatsUniqueViolation(local[r].short_code)
       THEN /\ Return(r, Unhandled("IntegrityError"))
            /\ UNCHANGED pending_stats
       ELSE /\ ~InsertWaits(r, pending_stats, local[r].short_code)
            /\ pending_stats' = [pending_stats EXCEPT ![r] =
                   {URLStats(NextId(url_stats, AllPendingStats),
                             local[r].short_code, 1, {local[r].now})}]
            /\ pc' = [pc EXCEPT ![r] = "commit_stats"]
            /\ UNCHANGED <<local, response>>
    /\ UNCHANGED <<urls, url_stats, clock, request, pending_urls>>

\* increment_visit_count, line 39: the COMMIT; the endpoint redirects.
RedirectCommitStats(r) ==
    /\ pc[r] = "commit_stats"
    /\ url_stats' = Committed(url_stats, pending_stats[r])
    /\ pending_stats' = [pending_stats EXCEPT ![r] = {}]
    /\ Return(r, RedirectResponse(local[r].original_url))
    /\ UNCHANGED <<urls, clock, request, pending_urls>>

\* ------------------------------------------------------ /stats/{short_code}

\* GET /stats/{short_code} arrives.
StartStats(r, c) ==
    /\ pc[r] = "idle"
    /\ request' = [request EXCEPT ![r] =
                      [endpoint |-> "stats", original_url |-> <<>>, short_code |-> c]]
    /\ local' = [local EXCEPT ![r].short_code = c]
    /\ pc' = [pc EXCEPT ![r] = "get_stats"]
    /\ UNCHANGED <<urls, url_stats, clock, pending_urls, pending_stats, response>>

\* str(x)
str(x) == <<"str", x>>

\* URLStatsService.get_stats: the dict it returns.
get_stats(table, code) ==
    LET stats == first(table, code)
    IN  IF stats # None
        THEN LET row == CHOOSE x \in stats : TRUE
             IN  [short_code |-> code,
                  visit_count |-> row.visit_count,
                  last_visited_at |-> {str(row.last_visited_at)}]
        ELSE [short_code |-> code, visit_count |-> 0, last_visited_at |-> None]

\* get_url_stats, line 66: stats_service.get_stats(...) is not awaited, so the
\* value tested is a coroutine object, which is true.
CoroutineIsTrue == TRUE

\* Mutant: the test of line 66 is on an awaited, empty result.
get_url_stats_404(stats) ==
    IF stats.visit_count = 0
    THEN HTTPException(404, "Short URL not found")
    ELSE Response(200, stats)

\* get_url_stats, lines 65-69: the endpoint's answer to the dict.
get_url_stats(stats) ==
    IF stats.visit_count = 0 /\ ~CoroutineIsTrue
    THEN HTTPException(404, "Short URL not found")
    ELSE Response(200, stats)

\* The SELECT answers.
GetStats(r) ==
    /\ pc[r] = "get_stats"
    /\ Return(r, get_url_stats(get_stats(url_stats, local[r].short_code)))
    /\ UNCHANGED <<urls, url_stats, clock, request, pending_urls, pending_stats>>

\* ---------------------------------------------------------- specification

\* What every request slot starts as.
InitRequests ==
    /\ clock = 0
    /\ request = [r \in Req |-> NoRequest]
    /\ pc = [r \in Req |-> "idle"]
    /\ local = [r \in Req |-> NoLocals]
    /\ pending_urls = [r \in Req |-> {}]
    /\ pending_stats = [r \in Req |-> {}]
    /\ response = [r \in Req |-> NoResponse]

\* The tables as the migrations create them: empty.
Init ==
    /\ urls = {}
    /\ url_stats = {}
    /\ InitRequests

Next ==
    \E r \in Req :
        \/ \E u \in InputUrls : StartShorten(r, u)
        \/ \E c \in Codes : ShortenLookup(r, c)
        \/ ShortenFlush(r)
        \/ ShortenCommit(r)
        \/ \E c \in Codes : StartRedirect(r, c)
        \/ RedirectLookup(r)
        \/ RedirectUpdate(r)
        \/ RedirectCommitUpdate(r)
        \/ RedirectFlushStats(r)
        \/ RedirectCommitStats(r)
        \/ \E c \in Codes : StartStats(r, c)
        \/ GetStats(r)

Spec == Init /\ [][Next]_vars

\* A database that already holds rows written outside these endpoints: a
\* ShortURL with is_active set to false, and its URLStats from earlier visits.
LegacyURL ==
    [id |-> 1, original_url |-> <<"https", ":", "/", "/", "example", ".", "com">>,
     short_code |-> "c1", is_active |-> FALSE]

LegacyStats == URLStats(1, "c1", 1, {0})

InitLegacy ==
    /\ urls = {LegacyURL}
    /\ url_stats \in {{}, {LegacyStats}}
    /\ InitRequests

SpecLegacy == InitLegacy /\ [][Next]_vars

\* One POST /shorten on its own, its body already received, on a database
\* that is empty or holds a record, with or without its stats row.
ExistingURL == ShortURL(1, <<"https", ":", "/", "/", "example", ".", "com">>, "c1")

InitShorten ==
    /\ \/ urls = {} /\ url_stats = {}
       \/ urls = {ExistingURL} /\ url_stats \in {{}, {LegacyStats}}
    /\ clock = 0
    /\ \E r \in Req : \E u \in ShortenInputs :
           request = [s \in Req |->
                         IF s = r
                         THEN [endpoint |-> "shorten", original_url |-> u, short_code |-> ""]
                         ELSE NoRequest]
    /\ pc = [r \in Req |-> "idle"]
    /\ local = [r \in Req |-> NoLocals]
    /\ pending_urls = [r \in Req |-> {}]
    /\ pending_stats = [r \in Req |-> {}]
    /\ response = [r \in Req |-> NoResponse]

NextShorten ==
    \E r \in Req :
        \/ request[r].endpoint = "shorten" /\ StartShorten(r, request[r].original_url)
        \/ \E c \in Codes : ShortenLookup(r, c)
        \/ ShortenFlush(r)
        \/ ShortenCommit(r)

SpecShorten == InitShorten /\ [][NextShorten]_vars

\* Requests made one after another, none before the one before it has been
\* answered, on a database that holds one record and no stats row.
InitSequential ==
    /\ urls = {ExistingURL}
    /\ url_stats = {}
    /\ InitRequests

\* No request is between its arrival and its answer.
Quiescent == \A r \in Req : pc[r] \in {"idle", "done"}

\* No request other than r is between its arrival and its answer.
OthersAtRest(r) == \A s \in Req \ {r} : pc[s] \in {"idle", "done"}

NextSequential ==
    \E r \in Req :
        \/ OthersAtRest(r) /\ \E u \in InputUrls : StartShorten(r, u)
        \/ \E c \in Codes : ShortenLookup(r, c)
        \/ ShortenFlush(r)
        \/ ShortenCommit(r)
        \/ OthersAtRest(r) /\ \E c \in Codes : StartRedirect(r, c)
        \/ RedirectLookup(r)
        \/ RedirectUpdate(r)
        \/ RedirectCommitUpdate(r)
        \/ RedirectFlushStats(r)
        \/ RedirectCommitStats(r)
        \/ OthersAtRest(r) /\ \E c \in Codes : StartStats(r, c)
        \/ GetStats(r)

SpecSequential == InitSequential /\ [][NextSequential]_vars

\* ------------------------------------------------------------------ claims

\* The requests that have called increment_visit_count for code c.
IncrementCalls(c) ==
    {r \in Req :
        /\ request[r].endpoint = "redirect"
        /\ request[r].short_code = c
        /\ \/ pc[r] \in {"update", "commit_update", "add_flush_stats", "commit_stats"}
           \/ pc[r] = "done" /\ response[r].status # 404}

\* Those of them whose call has ended, with a return or an exception.
IncrementEnded(c) == {r \in IncrementCalls(c) : pc[r] = "done"}

\* C1: once the N >= 1 concurrent increment(code) calls made on an absent
\* stats row have all ended, there is exactly one stats row for the code and
\* its visit_count is N.
C1_ConcurrentIncrementsCountN ==
    \A c \in Codes :
        LET calls == IncrementCalls(c)
        IN  (calls # {} /\ IncrementEnded(c) = calls)
                => /\ Cardinality(first(url_stats, c)) = 1
                   /\ \A row \in first(url_stats, c) :
                          row.visit_count = Cardinality(calls)

\* C2: no increment call ends in an error caused by the unique index of
\* url_stats.short_code: the caller whose insert is rejected re-runs the
\* atomic increment and returns.
C2_InsertConflictFallsBack ==
    \A r \in Req :
        (request[r].endpoint = "redirect" /\ pc[r] = "done")
            => response[r].exc # "IntegrityError"

\* C3: in every state no two ShortURL rows hold the same short_code; and the
\* INSERT of a shorten whose lookup found nothing, made when a row of that
\* code has been committed meanwhile, is rejected and writes nothing.
C3_ShortCodeUnique ==
    /\ [](\A a, b \in urls : a.short_code = b.short_code => a = b)
    /\ [][\A r \in Req :
             ( /\ pc[r] = "add_flush"
               /\ pc'[r] # "add_flush"
               /\ first(urls, local[r].short_code) # {} )
                 => /\ response'[r].exc = "IntegrityError"
                    /\ urls' = urls
                    /\ pending_urls' = pending_urls]_vars

\* C3 witness: a shorten's insert was rejected although its lookup had found
\* nothing, and both codes are taken.
C3_Witness ==
    /\ \E r \in Req :
           request[r].endpoint = "shorten" /\ response[r].exc = "IntegrityError"
    /\ Cardinality(urls) = 2

\* C4: a shorten whose insert is rejected by the unique index goes on with
\* its next attempt; the conflict never reaches the caller as an error.
C4_InsertConflictRetried ==
    \A r \in Req :
        (request[r].endpoint = "shorten" /\ pc[r] = "done")
            => response[r].exc # "IntegrityError"

\* C5: a resolve of the code that shorten(u) returned, whose lookup found the
\* record, redirects to exactly normalize(u), whatever else runs meanwhile.
C5_RoundTrip ==
    \A s, r \in Req :
        ( /\ request[s].endpoint = "shorten"
          /\ response[s].status = 200
          /\ request[r].endpoint = "redirect"
          /\ pc[r] = "done"
          /\ response[r].status # 404
          /\ \E b \in response[s].body : b.short_code = request[r].short_code )
            => response[r] = RedirectResponse(validate_url(request[s].original_url).url)

\* C6: the lookup that ends a shorten, because it is the fifth to find its
\* generated code in the store, fails the call with CodeAllocationExhausted,
\* an HTTPException with status 500; no insert is made and the ShortURL
\* records are unchanged.
C6_ExhaustedOutcome ==
    [][\A r \in Req :
          (pc[r] = "get_by_short_code" /\ pc'[r] = "done")
              => /\ local[r].attempt + 1 = MAX_ATTEMPTS
                 /\ response'[r] =
                        HTTPException(500, "Failed to generate unique short code")
                 /\ urls' = urls
                 /\ pending_urls' = pending_urls]_vars

\* C7: the lookup of a resolve on a code with no record, or with an inactive
\* record, ends the request with NotFound (404) and leaves url_stats, and
\* every transaction's pending stats rows, as they were; a request that has
\* ended takes no further step.
C7_NotFoundLeavesStats ==
    [][\A r \in Req :
          /\ ( /\ pc[r] = "get_original_url"
               /\ pc'[r] # "get_original_url"
               /\ \A row \in first(urls, request[r].short_code) : ~row.is_active )
                 => /\ response'[r] = HTTPException(404, "Short URL not found")
                    /\ pc'[r] = "done"
                    /\ url_stats' = url_stats
                    /\ pending_stats' = pending_stats
          /\ pc[r] = "done" => pc'[r] = "done"]_vars

\* C7 witness: a resolve of the inactive code has ended with 404 while the
\* code's stats row is in the table.
C7_Witness ==
    \E r \in Req :
        /\ request[r].endpoint = "redirect"
        /\ pc[r] = "done"
        /\ response[r].status = 404
        /\ \E row \in first(urls, request[r].short_code) : ~row.is_active
        /\ first(url_stats, request[r].short_code) # {}

\* C8: get_stats on a code with no stats row answers 200 with
\* {short_code: code, visit_count: 0, last_visited_at: null}, never an error.
C8_NoStatsRowGivesZero ==
    [][\A r \in Req :
          ( /\ pc[r] = "get_stats"
            /\ pc'[r] # "get_stats"
            /\ first(url_stats, request[r].short_code) = {} )
              => response'[r] =
                     Response(200, [short_code |-> request[r].short_code,
                                    visit_count |-> 0,
                                    last_visited_at |-> None])]_vars

\* C8 witness: the stats of a code without a stats row were asked for and
\* answered with a zero count, while another code has a stats row.
C8_Witness ==
    \E r \in Req :
        /\ request[r].endpoint = "stats"
        /\ pc[r] = "done"
        /\ response[r].status = 200
        /\ \E b \in response[r].body : b.visit_count = 0 /\ b.last_visited_at = None
        /\ first(url_stats, request[r].short_code) = {}
        /\ url_stats # {}

\* C9: in every step, each stats row is still there afterwards, for the same
\* code, with a visit_count at least as large.
C9_VisitCountNeverDecreases ==
    [][\A row \in url_stats :
          \E n \in url_stats' :
              /\ n.short_code = row.short_code
              /\ n.visit_count >= row.visit_count]_vars

\* C9 witness: a stats row has been incremented past its first visit.
C9_Witness == \E row \in url_stats : row.visit_count >= 2

\* C10: once an increment call for a code has ended, by a return or by an
\* exception, exactly one stats row exists for the code.
C10_OneStatsRowAfterIncrement ==
    \A c \in Codes :
        IncrementEnded(c) # {} => Cardinality(first(url_stats, c)) = 1

\* C10 witness: an increment call has ended in IntegrityError, another has
\* returned, and the code has its one row.
C10_Witness ==
    \E r, s \in Req :
        /\ request[r].endpoint = "redirect"
        /\ response[r].exc = "IntegrityError"
        /\ request[s].endpoint = "redirect"
        /\ response[s].status = 307
        /\ request[s].short_code = request[r].short_code
        /\ Cardinality(first(url_stats, request[r].short_code)) = 1

\* The stored visit_count of code c, 0 when it has no stats row.
StoredCount(c) ==
    IF first(url_stats, c) = {} THEN 0
    ELSE (CHOOSE row \in first(url_stats, c) : TRUE).visit_count

\* The increment calls for code c that have returned without an exception.
IncrementReturned(c) == {r \in IncrementEnded(c) : response[r].exc = ""}

Validated == [u \in InputUrls |-> validate_url(u)]

\* C12: in every state, every ShortURL row, committed or written by an open
\* transaction, holds an original_url that begins with http:// or https://;
\* and the row a POST /shorten writes holds the value validate_url returned
\* for the body of that request, which validate_url accepted.
C12_StoredUrlIsNormalized ==
    /\ [](\A r \in Req : \A row \in urls \cup pending_urls[r] :
             HasHttpPrefix(row.original_url))
    /\ [][\A r \in Req : \A row \in pending_urls'[r] \ pending_urls[r] :
             /\ request[r].endpoint = "shorten"
             /\ request[r].original_url \in InputUrls
             /\ Validated[request[r].original_url].ok
             /\ row.original_url = Validated[request[r].original_url].url]_vars

\* C12 witness: a committed row whose request body had surrounding blanks and
\* no scheme; the row holds the trimmed body behind https://.
C12_Witness ==
    \E row \in urls : \E s \in Req :
        /\ response[s] = Response(200, ShortenRequestResponse(row))
        /\ ~HasHttpPrefix(strip(request[s].original_url))
        /\ request[s].original_url # strip(request[s].original_url)
        /\ row.original_url = AddHttps(strip(request[s].original_url))

\* The POST /shorten requests that have been answered with their record.
ShortenReturned == {r \in Req : request[r].endpoint = "shorten" /\ response[r].status = 200}

\* C13: no step changes or deletes a ShortURL row: every row of urls is in
\* urls after the step with the same id, original_url, short_code and
\* is_active.  urls grows only in the step in which a shorten returns its
\* record, and then by exactly that one row; so in every state urls has as
\* many rows as shortens have returned a record.
C13_ShortURLRowsOnlyAdded ==
    /\ [](Cardinality(urls) = Cardinality(ShortenReturned))
    /\ [][/\ urls \subseteq urls'
          /\ \A r \in Req :
                 (r \in ShortenReturned' \ ShortenReturned)
                     => \E row \in urls' \ urls :
                            /\ urls' = urls \cup {row}
                            /\ response'[r] = Response(200, ShortenRequestResponse(row))
          /\ urls' # urls => ShortenReturned' # ShortenReturned]_vars

\* C13 witness: two shortens have returned their records, and a redirect
\* and its increment have run to their end on one of them.
C13_Witness ==
    /\ Cardinality(urls) = 2
    /\ \E r \in Req : request[r].endpoint = "redirect" /\ response[r].status = 307

\* Bodies of each kind normalize has to reject: empty, blanks only, a scheme
\* other than http or https, no host, a host without a ".".
InvalidExamples ==
    { <<>>,
      <<" ", " ">>,
      <<"ftp", ":", "/", "/", "example", ".", "com">>,
      <<"http", ":", "/", "/">>,
      <<"http", ":", "/", "/", "nodothost">> }

\* C14: the step in which a POST /shorten with a body that validate_url
\* rejects (among them the bodies of InvalidExamples) is handled ends the
\* request with an HTTPException of status 400; the request never reaches
\* the code generation and lookup, the tables urls and url_stats and every
\* transaction's written rows stay as they were, and the request takes no
\* further step.
C14_InvalidUrlFailsFirst ==
    [][\A r \in Req :
          /\ ( /\ pc[r] = "idle"
               /\ pc'[r] # "idle"
               /\ request'[r].endpoint = "shorten"
               /\ \/ ~validate_url(request'[r].original_url).ok
                  \/ request'[r].original_url \in InvalidExamples )
                 => /\ pc'[r] = "done"
                    /\ response'[r].status = 400
                    /\ response'[r].exc = "HTTPException"
                    /\ urls' = urls
                    /\ url_stats' = url_stats
                    /\ pending_urls' = pending_urls
                    /\ pending_stats' = pending_stats
          /\ pc[r] = "done" => (pc'[r] = "done" /\ response'[r] = response[r])]_vars

\* C14 witness: the body "ftp://example.com" has been refused with status
\* 400, on a database that holds a record and its stats row.
C14_Witness ==
    \E r \in Req :
        /\ request[r].original_url = <<"ftp", ":", "/", "/", "example", ".", "com">>
        /\ pc[r] = "done"
        /\ response[r].status = 400
        /\ urls = {ExistingURL}
        /\ url_stats = {LegacyStats}

\* t is s without its leading and trailing blanks.
IsTrimOf(t, s) ==
    \E i \in 1..(Len(s) + 1) : \E j \in 0..Len(s) :
        /\ t = SubSeq(s, i, j)
        /\ \A k \in 1..(i - 1) : s[k] \in Whitespace
        /\ \A k \in (j + 1)..Len(s) : s[k] \in Whitespace
        /\ t # <<>> => (t[1] \notin Whitespace /\ t[Len(t)] \notin Whitespace)

\* C15: the step in which validate_url accepts a body hands on, as the URL
\* to store, the body without its leading and trailing blanks when that
\* begins with http:// or https://, and otherwise https:// followed by the
\* body without those blanks; the netloc of the URL handed on is not empty
\* and holds a ".".
C15_NormalizedForm ==
    [][\A r \in Req :
          (pc[r] = "idle" /\ pc'[r] = "get_by_short_code")
              => LET out == local'[r].original_url
                     trimmed == CHOOSE t \in {SubSeq(request'[r].original_url, i, j) :
                                                i \in 1..(Len(request'[r].original_url) + 1),
                                                j \in 0..Len(request'[r].original_url)} :
                                    IsTrimOf(t, request'[r].original_url)
                 IN  /\ \/ startswith(trimmed, <<"http", ":", "/", "/">>)
                        \/ startswith(trimmed, <<"https", ":", "/", "/">>)
                        => out = trimmed
                     /\ ( /\ ~startswith(trimmed, <<"http", ":", "/", "/">>)
                          /\ ~startswith(trimmed, <<"https", ":", "/", "/">>) )
                        => out = <<"https", ":", "/", "/">> \o trimmed
                     /\ urlparse(out).netloc # <<>>
                     /\ \E k \in 1..Len(urlparse(out).netloc) :
                            urlparse(out).netloc[k] = "."]_vars

\* C15 witness: the body " example.com/p " has been accepted and the URL
\* handed on is "https://example.com/p".
C15_Witness ==
    \E r \in Req :
        /\ request[r].original_url = <<" ", "example", ".", "com", "/", "p", " ">>
        /\ pc[r] = "get_by_short_code"
        /\ local[r].original_url = <<"https", ":", "/", "/", "example", ".", "com", "/", "p">>

\* C16: a shorten call makes at most MAX_ATTEMPTS lookups and at most one
\* INSERT, and ends.  While it is in its loop it has made fewer than
\* MAX_ATTEMPTS lookups, all of which found their code present; a lookup
\* step either finds a code free and goes on to the INSERT, or has found a
\* code present and goes on to the next lookup or, as the MAX_ATTEMPTS-th,
\* ends the call.  Nothing leads back into the loop: after the INSERT the
\* call commits and returns its record, or the INSERT is rejected and the
\* call ends with that error; a call refused by validate_url never enters
\* the loop.  No call is held up for good: a lookup and a COMMIT can always
\* run, and an INSERT waits only for a transaction that is at its COMMIT.
C16_BoundedAttemptsOneInsert ==
    /\ [](\A r \in Req :
             /\ pc[r] = "get_by_short_code" => local[r].attempt < MAX_ATTEMPTS
             /\ pc[r] = "commit" => Cardinality(pending_urls[r]) = 1
             /\ pc[r] # "commit" => pending_urls[r] = {}
             /\ (pc[r] = "add_flush" /\ ~ShortURLUniqueViolation(local[r].short_code))
                    => \A s \in Req \ {r} : \A row \in pending_urls[s] :
                           row.short_code = local[r].short_code => pc[s] = "commit")
    /\ [][\A r \in Req :
             /\ (pc[r] = "get_by_short_code" /\ pc'[r] = "get_by_short_code"
                                             /\ local'[r] # local[r])
                    => /\ local'[r].attempt = local[r].attempt + 1
                       /\ \E row \in urls : row.short_code \in Codes
             /\ (pc[r] = "get_by_short_code" /\ pc'[r] = "add_flush")
                    => \A row \in urls : row.short_code # local'[r].short_code
             /\ (pc[r] = "get_by_short_code" /\ pc'[r] = "done")
                    => /\ local[r].attempt + 1 = MAX_ATTEMPTS
                       /\ \E row \in urls : row.short_code \in Codes
             /\ pc[r] = "get_by_short_code"
                    => pc'[r] \in {"get_by_short_code", "add_flush", "done"}
             /\ pc[r] = "add_flush" => pc'[r] \in {"add_flush", "commit", "done"}
             /\ (pc[r] = "add_flush" /\ pc'[r] = "done")
                    => response'[r].exc = "IntegrityError"
             /\ pc[r] = "commit" => pc'[r] \in {"commit", "done"}
             /\ (pc[r] = "commit" /\ pc'[r] = "done")
                    => \E row \in pending_urls[r] :
                           response'[r] = Response(200, ShortenRequestResponse(row))
             /\ pc[r] = "done" => pc'[r] = "done"]_vars

\* C16 witness: a shorten has made MAX_ATTEMPTS - 1 lookups that found their
\* code present and is about to make its last one, while another shorten,
\* whose lookup found its code free, has made its INSERT.
C16_Witness ==
    \E r, s \in Req :
        /\ pc[r] = "get_by_short_code"
        /\ local[r].attempt = MAX_ATTEMPTS - 1
        /\ pc[s] = "commit"

\* The GET /{short_code} requests for code c that were answered with the
\* redirect.
Redirected(c) ==
    {r \in Req : /\ request[r].endpoint = "redirect"
                 /\ request[r].short_code = c
                 /\ response[r].status = 307}

\* C17: with requests made one after another from a database without stats
\* rows, whenever no request is running, get_stats of every code reports as
\* visit_count the number k of redirects answered for that code, and for
\* k >= 1 a last_visited_at that is not None, also in the row; a redirect of
\* one code leaves the count of every other code as it was.  Every GET
\* /{short_code} in such a run is answered with the redirect or with 404.
C17_SequentialResolvesCounted ==
    Quiescent =>
        /\ \A c \in Codes :
               LET k == Cardinality(Redirected(c))
                   stats == get_stats(url_stats, c)
               IN  /\ stats.visit_count = k
                   /\ k >= 1 => /\ stats.last_visited_at # None
                                /\ \A row \in first(url_stats, c) :
                                       row.last_visited_at # None
        /\ \A r \in Req :
               (request[r].endpoint = "redirect" /\ pc[r] = "done")
                   => response[r].status \in {307, 404}

\* C17 witness: three redirects of one code have been answered one after
\* another, and the code's stats row counts 3.
C17_Witness ==
    /\ Quiescent
    /\ \E c \in Codes :
           /\ Cardinality(Redirected(c)) = 3
           /\ get_stats(url_stats, c).visit_count = 3

\* C18: every ShortURL row, committed or written by an open transaction, has
\* is_active true, and no step changes the is_active of a row; the lookup of
\* a GET /{short_code} ends the request with 404 "Short URL not found" if
\* and only if urls holds no row with the code, and otherwise goes on to the
\* increment.
C18_AllActiveNotFoundIffAbsent ==
    /\ [](\A row \in urls \cup AllPendingUrls : row.is_active)
    /\ [][/\ \A row \in urls : \A n \in urls' :
                 n.id = row.id => n.is_active = row.is_active
          /\ \A r \in Req :
                 (pc[r] = "get_original_url" /\ pc'[r] # "get_original_url")
                     => /\ (\A row \in urls : row.short_code # request[r].short_code)
                            <=> response'[r] = HTTPException(404, "Short URL not found")
                        /\ (\E row \in urls : row.short_code = request[r].short_code)
                            <=> pc'[r] = "update"]_vars

\* C18 witness: a GET of a code without a record was answered 404 and a GET
\* of a code with a record was answered with the redirect.
C18_Witness ==
    \E r, s \in Req :
        /\ request[r].endpoint = "redirect"
        /\ response[r].status = 404
        /\ first(urls, request[r].short_code) = {}
        /\ request[s].endpoint = "redirect"
        /\ response[s].status = 307
        /\ urls # {}

\* C19: in every state, every URLStats row, committed or written by an open
\* transaction, has visit_count >= 1 and a last_visited_at that is not None;
\* and for every code the dict get_stats returns has last_visited_at None
\* exactly when its visit_count is 0, which is exactly when the code has no
\* stats row.
C19_StatsRowsCounted ==
    [](/\ \A r \in Req : \A row \in url_stats \cup pending_stats[r] :
              /\ row.visit_count >= 1
              /\ row.last_visited_at # None
       /\ \A c \in Codes : \A stats \in {get_stats(url_stats, c)} :
              /\ (stats.last_visited_at = None) <=> (stats.visit_count = 0)
              /\ (stats.visit_count = 0) <=> (first(url_stats, c) = {}))

\* C19 witness: GET /stats/{short_code} was answered with a count of 1 and
\* a last_visited_at for a code visited once, while the other code has no
\* stats row.
C19_Witness ==
    \E r \in Req : \E c \in Codes :
        /\ request[r].endpoint = "stats"
        /\ \E b \in response[r].body :
               b.visit_count = 1 /\ b.last_visited_at # None
        /\ c # request[r].short_code
        /\ get_stats(url_stats, c).last_visited_at = None

\* C20: in every state, every URLStats row, committed or written by an open
\* transaction, carries the short_code of a committed, active ShortURL row.
\* A step that changes url_stats or a transaction's written stats rows is a
\* step of a GET /{short_code} whose lookup has succeeded, and the rows it
\* writes carry that request's code; a step of a POST /shorten or of a GET
\* /stats/{short_code} leaves both as they were.
C20_StatsRowsHaveRecords ==
    /\ [](\A row \in url_stats \cup AllPendingStats :
             \E u \in urls : u.short_code = row.short_code /\ u.is_active)
    /\ [][/\ (url_stats' # url_stats \/ pending_stats' # pending_stats)
                 => \E r \in Req :
                        /\ request[r].endpoint = "redirect"
                        /\ pc[r] \in {"update", "commit_update",
                                       "add_flush_stats", "commit_stats"}
                        /\ pc'[r] # pc[r]
                        /\ \E u \in urls :
                               u.short_code = request[r].short_code /\ u.is_active
                        /\ \A row \in (url_stats' \ url_stats)
                                         \cup (AllPendingStats' \ AllPendingStats) :
                               row.short_code = request[r].short_code
          /\ \A r \in Req :
                 ( /\ request'[r].endpoint \in {"shorten", "stats"}
                   /\ <<request[r], pc[r], local[r], response[r]>>
                          # <<request'[r], pc'[r], local'[r], response'[r]>> )
                     => /\ url_stats' = url_stats
                        /\ pending_stats' = pending_stats]_vars

\* C20 witness: two shortens have returned their records; one of the codes
\* has been visited once and has its stats row, the other has none.
C20_Witness ==
    \E row \in url_stats : \E u \in urls :
        /\ u.short_code # row.short_code
        /\ u.id > 1
        /\ first(url_stats, u.short_code) = {}
        /\ row.visit_count = 1

====
